---------------------------- MODULE Spec2Model ----------------------------
(***************************************************************************)
(* The two request handlers of echoparse-v3 that carry logic:             *)
(*                                                                         *)
(*   api/metrics.ts       handler (lines 32-96): reads dashboard_metrics   *)
(*                        ordered by calculated_at descending and reduces  *)
(*                        it to one entry per aliased metric name.         *)
(*   api/live-ratings.ts  handler (lines 8-68, and a second definition at  *)
(*                        lines 76-126): looks up the app-store and the    *)
(*                        play-store rating.                               *)
(*                                                                         *)
(* The handlers share no state, so each has its own specification: Spec    *)
(* for the metrics handler, LiveSpec for the live-rating handler.          *)
(***************************************************************************)
EXTENDS Integers, Sequences, FiniteSets, TLC

VARIABLES
    table,      \* rows of dashboard_metrics (written by the ingestion process)
    nullsFirst, \* whether the store puts rows without calculated_at first
    answer,     \* what the awaited store query gave the metrics handler
    res,        \* the metrics handler's response: [status, body]
    APPLE_APP_ID,       \* process.env.APPLE_APP_ID is set (live-ratings.ts 5)
    GOOGLE_PACKAGE_ID,  \* process.env.GOOGLE_PACKAGE_ID is set (live-ratings.ts 6)
    defn,       \* which definition of the live-rating handler serves: 1 or 2
    pc,         \* where the live-rating handler is
    appleCall,  \* the app-store lookup: "none", "pending", "settled"
    googleCall, \* the play-store lookup: "none", "pending", "settled"
    appleOutcome,   \* what the app-store lookup gave
    googleOutcome,  \* what the play-store lookup gave
    appleRating,    \* the handler's local appleRating
    googleRating,   \* the handler's local googleRating
    live        \* the live-rating handler's response: [status, body]

metricsVars == <<table, nullsFirst, answer, res>>

liveVars ==
    <<APPLE_APP_ID, GOOGLE_PACKAGE_ID, defn, pc, appleCall, googleCall,
      appleOutcome, googleOutcome, appleRating, googleRating, live>>

vars == <<metricsVars, liveVars>>

(***************************************************************************)
(* Bounds of the model.                                                    *)
(***************************************************************************)
MaxRows == 3
MaxTime == 2
MaxToken == 4

(***************************************************************************)
(* A timestamp is 1..MaxTime; an absent (null) calculated_at is NoTime,    *)
(* which is falsy in `data[0].calculated_at || null` and is what the       *)
(* response carries as null.                                               *)
(***************************************************************************)
NoTime == 0

\* The JSON null of `data: null`; a snapshot is a mapping from aliases.
NullData == [null |-> TRUE]

(***************************************************************************)
(* metricsMap (api/metrics.ts 50-58).                                      *)
(***************************************************************************)
metricsMap ==
    [one_star_percent  |-> "oneStarPercent",
     avg_sentiment     |-> "avgSentiment",
     trending_topic    |-> "trendingTopic",
     volume_delta      |-> "volumeDelta",
     platform_gap      |-> "platformGap",
     app_store_rating  |-> "appStoreRating",
     play_store_rating |-> "playStoreRating"]

HasAlias(name) == name \in DOMAIN metricsMap

(***************************************************************************)
(* The rows the ingestion process may have written.  "debug_trace" stands  *)
(* for an internal metric with no entry in metricsMap.                     *)
(***************************************************************************)
MetricNames == {"avg_sentiment", "app_store_rating", "debug_trace"}

\* metric_value with its metric_meta: one without, one with meta.calculatedAt
Payloads ==
    {[metric_value |-> 1, metric_meta |-> [calculatedAt |-> NoTime]],
     [metric_value |-> 2, metric_meta |-> [calculatedAt |-> 1]]}

Rows ==
    {[metric_name   |-> n,
      metric_value  |-> p.metric_value,
      metric_meta   |-> p.metric_meta,
      time_period   |-> "30d",
      calculated_at |-> t] : n \in MetricNames, p \in Payloads, t \in 0..MaxTime}

(***************************************************************************)
(* The store query (api/metrics.ts 37-40):                                 *)
(*   .from('dashboard_metrics').select('*')                                *)
(*   .order('calculated_at', { ascending: false })                         *)
(* The rows come back in descending calculated_at order.  The query gives  *)
(* no nullsFirst option, so whether rows without calculated_at go before   *)
(* or after the others is left to the client library and the store: it is *)
(* fixed for a deployment (nullsFirst) and either value is possible.  The  *)
(* order among rows with equal calculated_at is the store's choice at each *)
(* query.                                                                  *)
(***************************************************************************)
Orderings(S) ==
    {s \in [1..Cardinality(S) -> S] : \A i, j \in DOMAIN s : i # j => s[i] # s[j]}

Before(a, b) ==
    \* may a row with calculated_at a come before one with calculated_at b
    IF a = b THEN TRUE
    ELSE IF a = NoTime THEN nullsFirst
    ELSE IF b = NoTime THEN ~nullsFirst
    ELSE a > b

OrderedDesc(s) ==
    \A i, j \in DOMAIN s : i < j => Before(s[i].calculated_at, s[j].calculated_at)

AnyOrders(T) == Orderings(T)

StoreOrders(T) ==
    {s \in Orderings(T) : OrderedDesc(s)}

(***************************************************************************)
(* `const { data, error } = await supabase...`: what the await yields.     *)
(*   rows   error null, data the rows (possibly none)                      *)
(*   null   error null, data null                                          *)
(*   error  error set                                                      *)
(*   throw  the await rejects                                              *)
(***************************************************************************)
StoreAnswers(T) ==
    {[kind |-> "rows", rows |-> s] : s \in StoreOrders(T)}
        \cup {[kind |-> k, rows |-> <<>>] : k \in {"null", "error", "throw"}}

(***************************************************************************)
(* api/metrics.ts 60-66: keep the first row seen for each metric_name.     *)
(***************************************************************************)
RECURSIVE LatestLoop(_, _, _)
LatestLoop(data, i, latest) ==
    IF i > Len(data) THEN latest
    ELSE LET row == data[i]
         IN  IF row.metric_name \notin DOMAIN latest
             THEN LatestLoop(data, i + 1,
                      [n \in DOMAIN latest \cup {row.metric_name} |->
                          IF n = row.metric_name THEN row ELSE latest[n]])
             ELSE LatestLoop(data, i + 1, latest)

RECURSIVE LastLoop(_, _, _)
LastLoop(data, i, latest) ==
    \* the loop without its `if (!latest[row.metric_name])` guard
    IF i > Len(data) THEN latest
    ELSE LET row == data[i]
         IN  LastLoop(data, i + 1,
                 [n \in DOMAIN latest \cup {row.metric_name} |->
                     IF n = row.metric_name THEN row ELSE latest[n]])

LatestLast(data) == LastLoop(data, 1, <<>>)

Latest(data) == LatestLoop(data, 1, <<>>)

(***************************************************************************)
(* api/metrics.ts 70-80: one entry per alias whose metric has a row.       *)
(***************************************************************************)
Entry(row) ==
    [value         |-> row.metric_value,
     meta          |-> row.metric_meta,
     time_period   |-> row.time_period,
     calculated_at |-> row.calculated_at]

NameOf(alias) == CHOOSE n \in DOMAIN metricsMap : metricsMap[n] = alias

MetricsUnaliased(latest) ==
    \* a build that also emits unaliased metrics, under their own name
    [k \in {IF HasAlias(n) THEN metricsMap[n] ELSE n : n \in DOMAIN latest} |->
        IF k \in DOMAIN latest THEN Entry(latest[k]) ELSE Entry(latest[NameOf(k)])]

MetricsDropUntimed(latest) ==
    \* a build that skips a winner without calculated_at
    [alias \in {metricsMap[n] : n \in {m \in DOMAIN metricsMap \cap DOMAIN latest :
                                          latest[m].calculated_at # NoTime}} |->
        Entry(latest[NameOf(alias)])]

Metrics(latest) ==
    [alias \in {metricsMap[n] : n \in DOMAIN metricsMap \cap DOMAIN latest} |->
        Entry(latest[NameOf(alias)])]

Snapshot(data) == Metrics(Latest(data))

(***************************************************************************)
(* api/metrics.ts 84: data[0].calculated_at || null.                       *)
(***************************************************************************)
LastUpdatedOfLast(data) ==
    IF data[Len(data)].calculated_at = NoTime THEN NoTime
    ELSE data[Len(data)].calculated_at

LastUpdated(data) ==
    IF data[1].calculated_at = NoTime THEN NoTime ELSE data[1].calculated_at

(***************************************************************************)
(* The handler's response for each answer of the store                     *)
(* (api/metrics.ts 32-96).                                                 *)
(***************************************************************************)
NoDataResponse == [status |-> 200, body |-> [success |-> FALSE, data |-> NullData]]

ErrorResponse == [status |-> 500, body |-> [success |-> FALSE, error |-> "message"]]

HandlerNoEmptyBranch(ans) ==
    \* the handler without its `!data || data.length === 0` branch: data[0]
    \* of no rows throws and the catch answers
    IF ans.kind \in {"error", "throw"} THEN ErrorResponse
    ELSE IF ans.kind = "null" \/ ans.rows = <<>> THEN ErrorResponse
    ELSE [status |-> 200,
          body   |-> [success      |-> TRUE,
                      data         |-> Snapshot(ans.rows),
                      last_updated |-> LastUpdated(ans.rows)]]

HandlerFaultAsNoData(ans) ==
    \* the handler without its `if (error)` branch and its catch: a failed
    \* read leaves data unset and is answered like an empty store
    IF ans.kind \in {"error", "throw"} THEN NoDataResponse
    ELSE IF ans.kind = "null" \/ ans.rows = <<>> THEN NoDataResponse
    ELSE [status |-> 200,
          body   |-> [success      |-> TRUE,
                      data         |-> Snapshot(ans.rows),
                      last_updated |-> LastUpdated(ans.rows)]]

HandlerEmptySnapshotAsNoData(ans) ==
    \* a handler that also answers "no data" when no row has an alias
    IF ans.kind \in {"error", "throw"} THEN ErrorResponse
    ELSE IF ans.kind = "null" \/ ans.rows = <<>> THEN NoDataResponse
    ELSE IF DOMAIN Snapshot(ans.rows) = {} THEN NoDataResponse
    ELSE [status |-> 200,
          body   |-> [success      |-> TRUE,
                      data         |-> Snapshot(ans.rows),
                      last_updated |-> LastUpdated(ans.rows)]]

Handler(ans) ==
    IF ans.kind \in {"error", "throw"} THEN ErrorResponse
    ELSE IF ans.kind = "null" \/ ans.rows = <<>> THEN NoDataResponse
    ELSE [status |-> 200,
          body   |-> [success      |-> TRUE,
                      data         |-> Snapshot(ans.rows),
                      last_updated |-> LastUpdated(ans.rows)]]

(***************************************************************************)
(* JavaScript values the live-rating handler meets.  A number is held in   *)
(* units of 1/Unit, so 4.3 is Num(43000).                                  *)
(***************************************************************************)
Unit == 10 * 1000

JSNull == [t |-> "null"]
Undefined == [t |-> "undefined"]
NaN == [t |-> "NaN"]
Num(n) == [t |-> "number", n |-> n]
Str(s) == [t |-> "string", s |-> s]

\* typeof x === 'number' (NaN is a number)
TypeofNumber(x) == x.t \in {"number", "NaN"}

\* x in a condition
Truthy(x) ==
    CASE x.t = "number" -> x.n # 0
      [] x.t = "string" -> x.s # ""
      [] OTHER -> FALSE

\* Number.isFinite(x)
IsFinite(x) == x.t = "number"

Digits == <<"0", "1", "2", "3", "4", "5", "6", "7", "8", "9">>
DigitChars == {Digits[i] : i \in DOMAIN Digits}
DigitVal(c) == (CHOOSE i \in DOMAIN Digits : Digits[i] = c) - 1

RECURSIVE NatToString(_)
NatToString(n) ==
    IF n < 10 THEN Digits[n + 1] ELSE NatToString(n \div 10) \o Digits[(n % 10) + 1]

\* x.toFixed(2) of a number: rounded to hundredths, two decimals
ToFixed2(x) ==
    IF x.t = "NaN" THEN "NaN"
    ELSE LET h == (x.n + (Unit \div 200)) \div (Unit \div 100)
         IN  NatToString(h \div 100) \o "." \o Digits[((h \div 10) % 10) + 1]
                 \o Digits[(h % 10) + 1]

\* JSON.stringify of a number in res.json: NaN goes out as null
Json(x) == IF x.t = "NaN" THEN JSNull ELSE x

(***************************************************************************)
(* The app-store lookup (live-ratings.ts 15-21, 83-89): axios.get throws   *)
(* on a network error or a non-2xx status; otherwise appleResp.data is the *)
(* payload, whose results may be missing or empty.                         *)
(***************************************************************************)
AppleFields ==
    {Undefined, NaN, Str("4.5"), Num(0), Num(43 * (Unit \div 10)),
     Num(4666 * (Unit \div 1000))}

AppleOutcomes ==
    {[kind |-> "throw", results |-> <<>>], [kind |-> "noResults", results |-> <<>>]}
        \cup {[kind |-> "json", results |-> r] :
                 r \in {<<>>} \cup {<<[averageUserRating |-> v]>> : v \in AppleFields}}

\* appleResp.data?.results?.[0] is an object
HasResult(o) == o.kind = "json" /\ Len(o.results) >= 1

\* appleRating after the app-store block, in definition d of the handler
AppleParse(d, o) ==
    IF o.kind = "throw" \/ ~HasResult(o) THEN JSNull
    ELSE LET rating == o.results[1].averageUserRating
         IN  IF d = 1
             THEN IF TypeofNumber(rating) THEN rating ELSE JSNull
             ELSE IF Truthy(rating) THEN rating ELSE JSNull

(***************************************************************************)
(* The play-store lookup (live-ratings.ts 30-41, 98-105): the page is text *)
(* (a sequence of characters here), or axios parsed it into an object, on  *)
(* which .match is not a function and the catch takes over.                *)
(***************************************************************************)
Star == <<"s", "t", "a", "r">>
Spaces == {" "}
TokenChars == {"4", "7", "0", "."}
Tokens == UNION {[1..n -> TokenChars] : n \in 0..MaxToken}
Pages ==
    {tok \o sep \o tail :
        tok \in Tokens, sep \in {<<>>, <<" ">>}, tail \in {Star, <<"s", "t">>}}

GoogleOutcomes ==
    {[kind |-> "throw", text |-> <<>>], [kind |-> "object", text |-> <<>>]}
        \cup {[kind |-> "text", text |-> p] : p \in Pages}

\* the place after the longest run of characters of `class` that starts at i
RECURSIVE RunEnd(_, _, _)
RunEnd(text, i, class) ==
    IF i <= Len(text) /\ text[i] \in class THEN RunEnd(text, i + 1, class) ELSE i

StarAt(text, i) == i + 3 <= Len(text) /\ SubSeq(text, i, i + 3) = Star

(***************************************************************************)
(* The place after the captured group when the pattern matches from i, 0   *)
(* when it does not:                                                       *)
(*   definition 1   /([0-9]+(?:\.[0-9]+)?)\s*star/                         *)
(*   definition 2   /([0-9.]+)\s*star/                                     *)
(* Giving back characters of a greedy run never helps: the character that  *)
(* would follow is of the run's class, not a space nor "s".                *)
(***************************************************************************)
MatchEnd(d, text, i) ==
    IF d = 1
    THEN IF text[i] \notin DigitChars THEN 0
         ELSE LET j == RunEnd(text, i, DigitChars)
                  k == IF j + 1 <= Len(text) /\ text[j] = "." /\ text[j + 1] \in DigitChars
                       THEN RunEnd(text, j + 1, DigitChars)
                       ELSE j
              IN  IF StarAt(text, RunEnd(text, k, Spaces)) THEN k ELSE 0
    ELSE IF text[i] \notin DigitChars \cup {"."} THEN 0
         ELSE LET j == RunEnd(text, i, DigitChars \cup {"."})
              IN  IF StarAt(text, RunEnd(text, j, Spaces)) THEN j ELSE 0

\* match[1] of the first (leftmost) match, <<>> when match is null
Match(d, text) ==
    LET starts == {i \in DOMAIN text : MatchEnd(d, text, i) # 0}
    IN  IF starts = {} THEN <<>>
        ELSE LET i == CHOOSE x \in starts : \A y \in starts : x <= y
             IN  SubSeq(text, i, MatchEnd(d, text, i) - 1)

RECURSIVE IntValue(_)
IntValue(ds) ==
    IF ds = <<>> THEN 0
    ELSE 10 * IntValue(SubSeq(ds, 1, Len(ds) - 1)) + DigitVal(ds[Len(ds)])

\* the value of the digits after the point, in units of 1/Unit (4 digits)
RECURSIVE FracValue(_, _)
FracValue(ds, weight) ==
    IF ds = <<>> \/ weight = 0 THEN 0
    ELSE DigitVal(ds[1]) * weight + FracValue(Tail(ds), weight \div 10)

\* parseFloat(tok): the longest numeric prefix, NaN when there is none
ParseFloat(tok) ==
    LET j == RunEnd(tok, 1, DigitChars)
        int == SubSeq(tok, 1, j - 1)
        frac == IF j <= Len(tok) /\ tok[j] = "."
                THEN SubSeq(tok, j + 1, RunEnd(tok, j + 1, DigitChars) - 1)
                ELSE <<>>
    IN  IF int = <<>> /\ frac = <<>> THEN NaN
        ELSE Num(IntValue(int) * Unit + FracValue(frac, Unit \div 10))

\* googleRating after the play-store block, in definition d of the handler
GoogleParse(d, o) ==
    IF o.kind \in {"throw", "object"} THEN JSNull
    ELSE LET m == Match(d, o.text)
         IN  IF m = <<>> THEN JSNull
             ELSE IF d = 1
                  THEN IF IsFinite(ParseFloat(m)) THEN ParseFloat(m) ELSE JSNull
                  ELSE ParseFloat(m)

(***************************************************************************)
(* The response (live-ratings.ts 47-67, 111-125).  Definition 1 first      *)
(* turns a non-finite rating into null (validApple, validGoogle);          *)
(* definition 2 uses the rating as it is.  toFixed of a string is not a    *)
(* function: the handler then rejects and sends nothing itself.            *)
(***************************************************************************)
NotValidated(d, x) == x

Valid(d, x) == IF d = 1 THEN (IF IsFinite(x) THEN x ELSE JSNull) ELSE x

LiveRating(d, x) ==
    [value     |-> IF Valid(d, x) # JSNull THEN ToFixed2(Valid(d, x)) ELSE "N/A",
     raw_value |-> Json(Valid(d, x)),
     scale     |-> "5"]

Rejected == [status |-> 500, body |-> [none |-> TRUE]]

LiveResponse(d, apple, google) ==
    IF Valid(d, apple).t = "string" \/ Valid(d, google).t = "string" THEN Rejected
    ELSE [status |-> 200,
          body   |-> [success |-> TRUE,
                      data    |-> [app_store_live  |-> LiveRating(d, apple),
                                   play_store_live |-> LiveRating(d, google)]]]

\* if (APPLE_APP_ID) / if (GOOGLE_PACKAGE_ID)
AlwaysLookup == TRUE

ShouldLookupApple == APPLE_APP_ID

ShouldLookupGoogle == GOOGLE_PACKAGE_ID

(***************************************************************************)
(* State machines.                                                         *)
(***************************************************************************)
NoAnswer == [kind |-> "none", rows |-> <<>>]
NoResponse == [status |-> 0, body |-> [none |-> TRUE]]
NoAppleOutcome == [kind |-> "none", results |-> <<>>]
NoGoogleOutcome == [kind |-> "none", text |-> <<>>]

\* No metrics request yet, no row ingested.
MetricsIdle ==
    /\ table = {}
    /\ answer = NoAnswer
    /\ res = NoResponse

\* No live-rating request in progress.
LiveIdle ==
    /\ pc = "idle"
    /\ appleCall = "none"
    /\ googleCall = "none"
    /\ appleOutcome = NoAppleOutcome
    /\ googleOutcome = NoGoogleOutcome
    /\ appleRating = JSNull
    /\ googleRating = JSNull
    /\ live = NoResponse

\* The metrics endpoint, the live-rating endpoint not deployed.
Init ==
    /\ MetricsIdle
    /\ nullsFirst \in BOOLEAN
    /\ LiveIdle
    /\ APPLE_APP_ID = FALSE
    /\ GOOGLE_PACKAGE_ID = FALSE
    /\ defn = 1

\* The live-rating endpoint: the environment sets each identifier or not.
LiveInit ==
    /\ MetricsIdle
    /\ nullsFirst = TRUE
    /\ LiveIdle
    /\ APPLE_APP_ID \in BOOLEAN
    /\ GOOGLE_PACKAGE_ID \in BOOLEAN
    /\ defn \in {1, 2}

\* The ingestion process (out of this core) writes one more row, between
\* requests.
Ingest ==
    /\ res = NoResponse
    /\ Cardinality(table) < MaxRows
    /\ \E r \in Rows \ table : table' = table \cup {r}
    /\ UNCHANGED <<nullsFirst, answer, res>>
    /\ UNCHANGED liveVars

\* One request: the query is awaited and the handler responds.
MetricsRequest ==
    /\ res = NoResponse
    /\ \E ans \in StoreAnswers(table) :
          /\ answer' = ans
          /\ res' = Handler(ans)
    /\ UNCHANGED <<table, nullsFirst>>
    /\ UNCHANGED liveVars

\* The response is sent; nothing of the request is kept (no cache).
ResponseSent ==
    /\ res # NoResponse
    /\ answer' = NoAnswer
    /\ res' = NoResponse
    /\ UNCHANGED <<table, nullsFirst>>
    /\ UNCHANGED liveVars

Next ==
    \/ Ingest
    \/ MetricsRequest
    \/ ResponseSent

Spec == Init /\ [][Next]_vars

(***************************************************************************)
(* The live-rating handler runs to its next await: the app-store lookup    *)
(* is issued and awaited first; the play-store lookup is issued only in    *)
(* the continuation of that await (live-ratings.ts 13-45, 81-109).         *)
(***************************************************************************)
LiveRequest ==
    /\ pc = "idle"
    /\ IF ShouldLookupApple
       THEN /\ appleCall' = "pending"
            /\ pc' = "appleAwait"
            /\ UNCHANGED <<googleCall, live>>
       ELSE IF ShouldLookupGoogle
       THEN /\ googleCall' = "pending"
            /\ pc' = "googleAwait"
            /\ UNCHANGED <<appleCall, live>>
       ELSE /\ pc' = "done"
            /\ live' = LiveResponse(defn, JSNull, JSNull)
            /\ UNCHANGED <<appleCall, googleCall>>
    /\ UNCHANGED <<APPLE_APP_ID, GOOGLE_PACKAGE_ID, defn, appleOutcome, googleOutcome,
                   appleRating, googleRating>>
    /\ UNCHANGED metricsVars

\* The app-store lookup settles and the handler goes on to the play store.
AppleSettles ==
    /\ pc = "appleAwait"
    /\ \E o \in AppleOutcomes :
          /\ appleOutcome' = o
          /\ appleRating' = AppleParse(defn, o)
          /\ appleCall' = "settled"
          /\ IF ShouldLookupGoogle
             THEN /\ googleCall' = "pending"
                  /\ pc' = "googleAwait"
                  /\ UNCHANGED live
             ELSE /\ pc' = "done"
                  /\ live' = LiveResponse(defn, AppleParse(defn, o), googleRating)
                  /\ UNCHANGED googleCall
    /\ UNCHANGED <<APPLE_APP_ID, GOOGLE_PACKAGE_ID, defn, googleOutcome, googleRating>>
    /\ UNCHANGED metricsVars

\* The play-store lookup settles and the handler responds.
GoogleSettles ==
    /\ pc = "googleAwait"
    /\ \E o \in GoogleOutcomes :
          /\ googleOutcome' = o
          /\ googleRating' = GoogleParse(defn, o)
          /\ googleCall' = "settled"
          /\ pc' = "done"
          /\ live' = LiveResponse(defn, appleRating, GoogleParse(defn, o))
    /\ UNCHANGED <<APPLE_APP_ID, GOOGLE_PACKAGE_ID, defn, appleCall, appleOutcome,
                   appleRating>>
    /\ UNCHANGED metricsVars

\* The request is over; the next one starts afresh.
LiveSent ==
    /\ pc = "done"
    /\ pc' = "idle"
    /\ appleCall' = "none"
    /\ googleCall' = "none"
    /\ appleOutcome' = NoAppleOutcome
    /\ googleOutcome' = NoGoogleOutcome
    /\ appleRating' = JSNull
    /\ googleRating' = JSNull
    /\ live' = NoResponse
    /\ UNCHANGED <<APPLE_APP_ID, GOOGLE_PACKAGE_ID, defn>>
    /\ UNCHANGED metricsVars

LiveNext ==
    \/ LiveRequest
    \/ AppleSettles
    \/ GoogleSettles
    \/ LiveSent

LiveSpec == LiveInit /\ [][LiveNext]_vars

(***************************************************************************)
(* Vocabulary of the metrics claims.                                       *)
(***************************************************************************)
\* The store returned at least one row, so the handler built a snapshot.
Resolved == answer.kind = "rows" /\ answer.rows # <<>>

Range(s) == {s[i] : i \in DOMAIN s}

NamesIn(data) == {data[i].metric_name : i \in DOMAIN data}

AliasedNamesIn(data) == {n \in NamesIn(data) : HasAlias(n)}

\* The first row of `data` with this metric name.
FirstOf(data, name) ==
    data[CHOOSE i \in DOMAIN data :
            /\ data[i].metric_name = name
            /\ \A j \in 1..(i - 1) : data[j].metric_name # name]

\* The largest calculated_at of `data`, NoTime when no row has one.
MaxCalculatedAt(data) ==
    CHOOSE t \in {data[i].calculated_at : i \in DOMAIN data} :
        \A i \in DOMAIN data : t >= data[i].calculated_at

\* `data` without the rows at the positions in S / with row r put after position k.
Without(data, S) ==
    LET keep == {i \in DOMAIN data : i \notin S}
        F[i \in 0..Len(data)] ==
            IF i = 0 THEN <<>>
            ELSE IF i \in keep THEN Append(F[i - 1], data[i]) ELSE F[i - 1]
    IN  F[Len(data)]

InsertAfter(data, k, r) ==
    SubSeq(data, 1, k) \o <<r>> \o SubSeq(data, k + 1, Len(data))

UnaliasedPositions(data) == {i \in DOMAIN data : ~HasAlias(data[i].metric_name)}

\* No two rows of one aliased metric name tie (two rows without
\* calculated_at tie too).
NoTies(data) ==
    \A i, j \in DOMAIN data :
        (i # j /\ data[i].metric_name = data[j].metric_name
               /\ HasAlias(data[i].metric_name)) =>
            data[i].calculated_at # data[j].calculated_at

C2_AnyOrderSameSnapshot ==
    (Resolved /\ \A i \in DOMAIN answer.rows : answer.rows[i].calculated_at # NoTime) =>
        \A p \in StoreOrders(Range(answer.rows)) : Snapshot(p) = res.body.data

(***************************************************************************)
(* C2, amended: the same rows in any other order the store can return      *)
(* them in resolve to the snapshot the handler emitted, provided no two    *)
(* rows of one aliased metric name have equal calculated_at (two rows      *)
(* without calculated_at count as equal); with such a tie the row the      *)
(* store returns first wins.                                               *)
(***************************************************************************)
C2_SameSnapshotWithoutTies ==
    (Resolved /\ NoTies(answer.rows)) =>
        \A p \in StoreOrders(Range(answer.rows)) : Snapshot(p) = res.body.data

C2_Witness ==
    /\ Resolved
    /\ NoTies(answer.rows)
    /\ res.status = 200
    /\ Cardinality(StoreOrders(Range(answer.rows))) > 1
    /\ \E i, j \in DOMAIN answer.rows :
          /\ i # j
          /\ answer.rows[i].metric_name = answer.rows[j].metric_name
          /\ HasAlias(answer.rows[i].metric_name)

(***************************************************************************)
(* C3: when the read succeeds with no rows (data null or empty) the        *)
(* response is 200 {success: false, data: null} and carries no snapshot.   *)
(***************************************************************************)
C3_NoRowsNoData ==
    (answer.kind = "null" \/ (answer.kind = "rows" /\ answer.rows = <<>>)) =>
        /\ res.status = 200
        /\ DOMAIN res.body = {"success", "data"}
        /\ res.body.success = FALSE
        /\ res.body.data = NullData

C3_Witness ==
    /\ answer.kind = "rows"
    /\ answer.rows = <<>>
    /\ res.status = 200

(***************************************************************************)
(* C4: the keys of the snapshot are the aliases of the aliased metric      *)
(* names returned, so a row without alias produces no key; and taking any  *)
(* rows without alias out of the returned sequence, or putting one in at   *)
(* any place, resolves to the snapshot the handler emitted.                *)
(***************************************************************************)
C4_UnaliasedRowsHaveNoEffect ==
    Resolved =>
        /\ DOMAIN res.body.data = {metricsMap[n] : n \in AliasedNamesIn(answer.rows)}
        /\ \A S \in SUBSET UnaliasedPositions(answer.rows) :
              Snapshot(Without(answer.rows, S)) = res.body.data
        /\ \A r \in {x \in Rows : ~HasAlias(x.metric_name)} :
              \A k \in 0..Len(answer.rows) :
                  Snapshot(InsertAfter(answer.rows, k, r)) = res.body.data

C4_Witness ==
    /\ Resolved
    /\ res.status = 200
    /\ ~HasAlias(answer.rows[1].metric_name)
    /\ AliasedNamesIn(answer.rows) # {}

(***************************************************************************)
(* C5, as stated: last_updated is the largest calculated_at over all the   *)
(* rows returned.                                                          *)
(***************************************************************************)
C5_LastUpdatedIsMax ==
    Resolved => res.body.last_updated = MaxCalculatedAt(answer.rows)

(***************************************************************************)
(* C5, amended: last_updated is the calculated_at of the first row         *)
(* returned (null when that row has none); it is the largest calculated_at *)
(* over all the rows whenever that first row has a calculated_at.          *)
(***************************************************************************)
C5_LastUpdatedIsFirstRow ==
    Resolved =>
        /\ res.body.last_updated = answer.rows[1].calculated_at
        /\ answer.rows[1].calculated_at # NoTime =>
              res.body.last_updated = MaxCalculatedAt(answer.rows)

C5_Witness ==
    /\ Resolved
    /\ res.status = 200
    /\ answer.rows[1].calculated_at # NoTime
    /\ \E i \in DOMAIN answer.rows :
          /\ answer.rows[i].metric_name # answer.rows[1].metric_name
          /\ answer.rows[i].calculated_at # answer.rows[1].calculated_at

(***************************************************************************)
(* C6, as stated: a winning row without calculated_at gives an entry whose *)
(* timestamp is the row's metric_meta.calculatedAt (null when that is      *)
(* absent too), and the entry is present.                                  *)
(***************************************************************************)
C6_FallsBackToMetaTimestamp ==
    Resolved =>
        \A n \in AliasedNamesIn(answer.rows) :
            FirstOf(answer.rows, n).calculated_at = NoTime =>
                /\ metricsMap[n] \in DOMAIN res.body.data
                /\ res.body.data[metricsMap[n]].calculated_at
                       = FirstOf(answer.rows, n).metric_meta.calculatedAt

(***************************************************************************)
(* C6, amended: a winning row without calculated_at gives an entry whose   *)
(* calculated_at is null whether or not metric_meta.calculatedAt is        *)
(* present (metric_meta is passed on unchanged as meta), and the entry is  *)
(* present.                                                                *)
(***************************************************************************)
C6_UntimedWinnerKeepsNullTimestamp ==
    Resolved =>
        \A n \in AliasedNamesIn(answer.rows) :
            FirstOf(answer.rows, n).calculated_at = NoTime =>
                /\ metricsMap[n] \in DOMAIN res.body.data
                /\ res.body.data[metricsMap[n]].calculated_at = NoTime
                /\ res.body.data[metricsMap[n]].meta
                       = FirstOf(answer.rows, n).metric_meta

C6_Witness ==
    /\ Resolved
    /\ res.status = 200
    /\ \E n \in AliasedNamesIn(answer.rows) :
          /\ FirstOf(answer.rows, n).calculated_at = NoTime
          /\ FirstOf(answer.rows, n).metric_meta.calculatedAt # NoTime

(***************************************************************************)
(* Vocabulary of the live-rating claims.                                   *)
(***************************************************************************)
\* {value "N/A", raw_value null, scale "5"}
Unknown == [value |-> "N/A", raw_value |-> JSNull, scale |-> "5"]

\* The lookup failed: network error or non-2xx, no result in the payload,
\* or a rating field that is no finite number.
AppleFailed(o) ==
    \/ o.kind \in {"throw", "noResults"}
    \/ o.results = <<>>
    \/ o.results[1].averageUserRating.t # "number"

\* The lookup failed: network error or non-2xx, a payload that is no text,
\* or a text with no digit or without "star" in it.
GoogleFailed(o) ==
    \/ o.kind \in {"throw", "object"}
    \/ \A i \in DOMAIN o.text : o.text[i] \notin DigitChars
    \/ \A i \in DOMAIN o.text : ~StarAt(o.text, i)

(***************************************************************************)
(* C7: in the handler of live-ratings.ts 8-68, a source whose lookup       *)
(* failed is reported as {"N/A", null, "5"}, the other source is reported  *)
(* as its own lookup alone decides, and the response is 200 with success   *)
(* true; for the app-store source and for the play-store source.           *)
(***************************************************************************)
C7_SourceFailureIsContained ==
    (defn = 1 /\ pc = "done") =>
        /\ live.status = 200
        /\ live.body.success = TRUE
        /\ (appleCall = "settled" /\ AppleFailed(appleOutcome)) =>
              /\ live.body.data.app_store_live = Unknown
              /\ live.body.data.play_store_live
                     = IF googleCall = "settled"
                       THEN LiveRating(1, GoogleParse(1, googleOutcome))
                       ELSE Unknown
        /\ (googleCall = "settled" /\ GoogleFailed(googleOutcome)) =>
              /\ live.body.data.play_store_live = Unknown
              /\ live.body.data.app_store_live
                     = IF appleCall = "settled"
                       THEN LiveRating(1, AppleParse(1, appleOutcome))
                       ELSE Unknown

C7_Witness ==
    /\ defn = 1
    /\ pc = "done"
    /\ appleOutcome.kind = "throw"
    /\ googleCall = "settled"
    /\ live.body.data.play_store_live.raw_value = Num(47 * (Unit \div 10))
    /\ live.body.data.play_store_live.value = "4.70"

(***************************************************************************)
(* C8: a source whose identifier is not set is never looked up, and every  *)
(* response reports it as {"N/A", null, "5"}, whatever the other source    *)
(* did; the handler of live-ratings.ts 8-68 always responds 200.           *)
(***************************************************************************)
C8_UnconfiguredSourceIsNotCalled ==
    /\ ~APPLE_APP_ID =>
          /\ appleCall = "none"
          /\ (pc = "done" /\ live.status = 200) =>
                live.body.data.app_store_live = Unknown
    /\ ~GOOGLE_PACKAGE_ID =>
          /\ googleCall = "none"
          /\ (pc = "done" /\ live.status = 200) =>
                live.body.data.play_store_live = Unknown
    /\ (defn = 1 /\ pc = "done") => live.status = 200

C8_Witness ==
    /\ ~APPLE_APP_ID
    /\ GOOGLE_PACKAGE_ID
    /\ pc = "done"
    /\ googleCall = "settled"
    /\ live.status = 200
    /\ live.body.data.play_store_live.raw_value.t = "number"

(***************************************************************************)
(* C9: in every response and for both sources, raw_value is null or a      *)
(* finite number, and value is "N/A" exactly when raw_value is null.       *)
(***************************************************************************)
RawValuePolicy(r) ==
    /\ r.raw_value = JSNull \/ r.raw_value.t = "number"
    /\ r.value = "N/A" <=> r.raw_value = JSNull

C9_RawValueNullOrFinite ==
    (pc = "done" /\ live.status = 200) =>
        /\ RawValuePolicy(live.body.data.app_store_live)
        /\ RawValuePolicy(live.body.data.play_store_live)

(***************************************************************************)
(* C10: with both identifiers set the play-store lookup is issued without  *)
(* waiting for the app-store lookup (while the app-store lookup is pending *)
(* the play-store lookup has been issued), and the handler responds only   *)
(* after both have settled.                                                *)
(***************************************************************************)
C10_LookupsIssuedConcurrently ==
    (APPLE_APP_ID /\ GOOGLE_PACKAGE_ID) =>
        /\ appleCall = "pending" => googleCall # "none"
        /\ pc = "done" => (appleCall = "settled" /\ googleCall = "settled")

(***************************************************************************)
(* C11: when the store read fails (the query returns an error, or the      *)
(* await rejects) the response body has success = false and an error       *)
(* string, and has neither data nor last_updated, whatever the store       *)
(* holds.                                                                  *)
(***************************************************************************)
StoreFault == answer.kind \in {"error", "throw"}

C11_StoreFaultNoPartialData ==
    StoreFault =>
        /\ "success" \in DOMAIN res.body /\ res.body.success = FALSE
        /\ "error" \in DOMAIN res.body /\ res.body.error \in STRING
        /\ "data" \notin DOMAIN res.body
        /\ "last_updated" \notin DOMAIN res.body

\* a read that fails while the store holds a row with an alias
C11_Witness ==
    /\ StoreFault
    /\ \E r \in table : HasAlias(r.metric_name)
    /\ res.status = 500

(***************************************************************************)
(* C12: an empty store and a store with no exposable metric are answered   *)
(* differently: when the store returns at least one record and no record's *)
(* metric name has an alias the body has success = true and data is the    *)
(* empty mapping, and a body of success = false with data = null is sent   *)
(* only when the store returned no records.                                *)
(***************************************************************************)
NoRecords == answer.kind = "null" \/ (answer.kind = "rows" /\ answer.rows = <<>>)

IsNoDataBody(body) ==
    /\ "success" \in DOMAIN body /\ body.success = FALSE
    /\ "data" \in DOMAIN body /\ body.data = NullData

C12_EmptySnapshotIsNotNoData ==
    /\ (Resolved /\ AliasedNamesIn(answer.rows) = {}) =>
          /\ res.status = 200
          /\ res.body.success = TRUE
          /\ DOMAIN res.body.data = {}
          /\ ~ IsNoDataBody(res.body)
    /\ IsNoDataBody(res.body) => NoRecords

C12_Witness ==
    /\ Resolved
    /\ AliasedNamesIn(answer.rows) = {}
    /\ res.status = 200
    /\ res.body.success = TRUE

=============================================================================
